---- MODULE Spec2Model ----
(***************************************************************************)
(* A model of the AIS decoding crate: the tag-block parser                 *)
(* (src/messages/tag_block.rs), the reader loops and the one-shot decode   *)
(* (src/decoders/utils.rs).  Strings are sequences of bytes (0..255), as   *)
(* Rust's &str and &[u8] are; an Option is a sequence of length 0 or 1.    *)
(***************************************************************************)
EXTENDS Integers, Sequences, FiniteSets, TLC

VARIABLES
    input,      \* TagBlock::parse: the &str handed to it
    result,     \* TagBlock::parse: what the call produced
    transport,  \* which of decode_from_udp, decode_from_tcp, decode_from_file runs
    status,     \* the reader: "start", "running", "ended" (Ok(())), "failed" (Err), "panicked"
    failure,    \* why the reader returned Err: "" for none, "io", "invalid_data"
    parser,     \* the reader's AisParser
    delivered,  \* the lines the transport has delivered, in order
    fed,        \* the byte strings handed to parse_nmea_line, in order
    outcomes,   \* what the parser answered to each of them
    printed,    \* where parse_nmea_line printed for each of them
    framed,     \* the framing of each of them (a history variable)
    dline,      \* decode: the message handed to it
    dresult     \* decode: what the call produced

tagVars == <<input, result>>
loopVars == <<transport, status, failure, parser, delivered, fed, outcomes, printed, framed>>
decodeVars == <<dline, dresult>>
vars == <<input, result, transport, status, failure, parser, delivered, fed,
          outcomes, printed, framed, dline, dresult>>

(***************************************************************************)
(* Bytes and strings                                                       *)
(***************************************************************************)

\* The ASCII codes of the characters the code names.
CH == [ backslash |-> 92, star |-> 42, comma |-> 44, colon |-> 58,
        plus |-> 43, minus |-> 45, bang |-> 33, dollar |-> 36,
        lf |-> 10, cr |-> 13,
        c |-> 99, d |-> 100, n |-> 110, r |-> 114, s |-> 115, t |-> 116 ]

None == <<>>
Some(v) == <<v>>
IsSome(o) == Len(o) = 1

RECURSIVE Concat(_)
Concat(ss) == IF ss = <<>> THEN <<>> ELSE Head(ss) \o Concat(Tail(ss))

RECURSIVE Join(_, _)
Join(ss, sep) ==
    IF Len(ss) = 0 THEN <<>>
    ELSE IF Len(ss) = 1 THEN ss[1]
    ELSE ss[1] \o <<sep>> \o Join(Tail(ss), sep)

\* u8 ^ u8, bit by bit.
RECURSIVE BitXor(_, _)
BitXor(a, b) ==
    IF a = 0 THEN b
    ELSE IF b = 0 THEN a
    ELSE (((a % 2) + (b % 2)) % 2) + 2 * BitXor(a \div 2, b \div 2)

\* str::trim_matches('\\'): the longest prefix and suffix of backslashes removed.
TrimBackslashes(str) ==
    LET keep == {i \in 1..Len(str) : str[i] # CH.backslash}
    IN  IF keep = {} THEN <<>>
        ELSE SubSeq(str, CHOOSE i \in keep : \A j \in keep : i <= j,
                         CHOOSE i \in keep : \A j \in keep : i >= j)

\* str::split(sep): one piece more than there are separators, empty pieces kept.
Split(str, sep) ==
    LET at == {i \in 1..Len(str) : str[i] = sep}
        \* the position of the k-th separator; 0 before the first, Len + 1 after the last
        cut(k) == IF k = 0 THEN 0
                  ELSE IF k > Cardinality(at) THEN Len(str) + 1
                  ELSE CHOOSE i \in at : Cardinality({j \in at : j < i}) = k - 1
    IN  [k \in 1..(Cardinality(at) + 1) |-> SubSeq(str, cut(k - 1) + 1, cut(k) - 1)]

\* char::to_digit(radix): the digit's value, or -1.
ToDigit(b, radix) ==
    LET v == IF b \in 48..57 THEN b - 48
             ELSE IF b \in 97..122 THEN b - 97 + 10
             ELSE IF b \in 65..90 THEN b - 65 + 10
             ELSE 36
    IN  IF v < radix THEN v ELSE -1

\* The digits of an integer literal after from_str_radix's sign handling for an
\* unsigned type: one leading '+' is dropped, a '-' is left to fail as a digit.
\* None when the string is empty or is a lone sign.
UnsignedDigits(str) ==
    IF Len(str) = 0 THEN None
    ELSE IF Len(str) = 1 /\ str[1] \in {CH.plus, CH.minus} THEN None
    ELSE IF str[1] = CH.plus THEN Some(Tail(str))
    ELSE Some(str)

\* u8::from_str_radix(str, 16) for a string of at most two bytes (no overflow
\* is possible): Some(value) or None.
RECURSIVE HexValue(_, _, _)
HexValue(ds, i, acc) ==
    IF i > Len(ds) THEN acc
    ELSE IF ToDigit(ds[i], 16) < 0 THEN -1
    ELSE HexValue(ds, i + 1, acc * 16 + ToDigit(ds[i], 16))

from_str_radix_u8(str) ==
    LET ds == UnsignedDigits(str)
    IN  IF ~IsSome(ds) THEN None
        ELSE IF HexValue(ds[1], 1, 0) < 0 \/ HexValue(ds[1], 1, 0) > 255 THEN None
        ELSE Some(HexValue(ds[1], 1, 0))

\* An unsigned integer of any width is kept as its decimal digits without
\* leading zeros (the values 0..9, most significant first); zero is <<0>>.
RECURSIVE StripZeros(_)
StripZeros(ds) ==
    IF Len(ds) > 1 /\ ds[1] = 0 THEN StripZeros(Tail(ds)) ELSE ds

\* a <= b for two such digit sequences.
RECURSIVE LexLeq(_, _)
LexLeq(a, b) ==
    IF a = <<>> THEN TRUE
    ELSE IF a[1] # b[1] THEN a[1] < b[1]
    ELSE LexLeq(Tail(a), Tail(b))

NatLeq(a, b) ==
    IF Len(a) # Len(b) THEN Len(a) < Len(b) ELSE LexLeq(a, b)

\* u32::MAX and u64::MAX, the widths of line_count/relative_time and of
\* receiver_timestamp.
U32Max == <<4,2,9,4,9,6,7,2,9,5>>
U64Max == <<1,8,4,4,6,7,4,4,0,7,3,7,0,9,5,5,1,6,1,5>>

\* str::parse::<uN>(): decimal, optional '+', at least one digit, and an error
\* (here None, after .ok()) on any other byte or on overflow.
ParseUnsigned(str, max) ==
    LET ds == UnsignedDigits(str)
    IN  IF ~IsSome(ds) THEN None
        ELSE IF \E i \in 1..Len(ds[1]) : ToDigit(ds[1][i], 10) < 0 THEN None
        ELSE LET v == StripZeros([i \in 1..Len(ds[1]) |-> ToDigit(ds[1][i], 10)])
             IN  IF NatLeq(v, max) THEN Some(v) ELSE None

\* str::is_char_boundary(idx) for 0 < idx < len: the byte at idx is not a UTF-8
\* continuation byte (idx counts from 0, the sequence from 1).
IsCharBoundary(str, idx) ==
    IF idx = 0 \/ idx = Len(str) THEN TRUE
    ELSE IF idx > Len(str) THEN FALSE
    ELSE str[idx + 1] \notin 128..191

(***************************************************************************)
(* TagBlock::parse                                                         *)
(***************************************************************************)

\* iter().fold(0u8, |acc, &item| acc ^ item) over the bytes lo..hi.  XOR is
\* associative and 0 its unit, so the fold is taken by halves, which keeps the
\* evaluation shallow on a long line.
RECURSIVE FoldXor(_, _, _)
FoldXor(data, lo, hi) ==
    IF lo > hi THEN 0
    ELSE IF lo = hi THEN data[lo]
    ELSE BitXor(FoldXor(data, lo, (lo + hi) \div 2),
                FoldXor(data, (lo + hi) \div 2 + 1, hi))

\* A faulty variant, the commented-out variant of line 24: the '*' is folded in as well.
calculate_checksum_with_star(data) == FoldXor(Append(data, CH.star), 1, Len(data) + 1)

\* calculate_checksum: the XOR of all bytes, from 0.
calculate_checksum(data) == FoldXor(data, 1, Len(data))

EmptyTagBlock(checksum) ==
    [ receiver_timestamp |-> None, destination_station |-> None,
      line_count |-> None, relative_time |-> None,
      source_station |-> None, text |-> None, checksum |-> checksum ]

\* The loop's state after a pair: the block so far, or that the pair panicked.
Continue(tb) == [panicked |-> FALSE, tb |-> tb]
Panicked(tb) == [panicked |-> TRUE, tb |-> tb]

\* Lines 60-89, one turn of the loop over the pairs: the block after the pair
\* kv, or a panic when split_at(2) is not on a character boundary.
ApplyPair(tb, kv) ==
    IF Len(kv) < 3 THEN Continue(tb)
    ELSE IF ~IsCharBoundary(kv, 2) THEN Panicked(tb)
    ELSE LET key   == SubSeq(kv, 1, 2)
             value == SubSeq(kv, 3, Len(kv))
         IN  IF key = <<CH.c, CH.colon>>
                 THEN Continue([tb EXCEPT !.receiver_timestamp = ParseUnsigned(value, U64Max)])
             ELSE IF key = <<CH.d, CH.colon>>
                 THEN Continue([tb EXCEPT !.destination_station = Some(value)])
             ELSE IF key = <<CH.n, CH.colon>>
                 THEN Continue([tb EXCEPT !.line_count = ParseUnsigned(value, U32Max)])
             ELSE IF key = <<CH.r, CH.colon>>
                 THEN Continue([tb EXCEPT !.relative_time = ParseUnsigned(value, U32Max)])
             ELSE IF key = <<CH.s, CH.colon>>
                 THEN Continue([tb EXCEPT !.source_station = Some(value)])
             ELSE IF key = <<CH.t, CH.colon>>
                 THEN Continue([tb EXCEPT !.text = Some(value)])
             ELSE Continue(tb)

\* Line 59: the loop, left at the first panic.
RECURSIVE ApplyPairs(_, _, _)
ApplyPairs(tb, kvs, i) ==
    IF i > Len(kvs) THEN Continue(tb)
    ELSE IF ApplyPair(tb, kvs[i]).panicked THEN Panicked(tb)
    ELSE ApplyPairs(ApplyPair(tb, kvs[i]).tb, kvs, i + 1)

\* The outcomes of a call.
Pending == [tag |-> "Pending", msg |-> "", val |-> None, calculated |-> 0, expected |-> 0]
OkOf(v) == [tag |-> "Ok", msg |-> "", val |-> v, calculated |-> 0, expected |-> 0]
ErrOf(m) == [tag |-> "Err", msg |-> m, val |-> None, calculated |-> 0, expected |-> 0]
ErrMismatch(calc, exp) ==
    [tag |-> "Err", msg |-> "Checksum mismatch", val |-> None,
     calculated |-> calc, expected |-> exp]
Panic == [tag |-> "Panic", msg |-> "", val |-> None, calculated |-> 0, expected |-> 0]

ErrMissingChecksum == ErrOf("Invalid tag block format; missing checksum")
ErrChecksumFormat == ErrOf("Invalid checksum format")

\* A faulty variant: any number of '*' at least one is taken, the first two parts used.
PartsOkAtLeastTwo(parts) == Len(parts) >= 2

\* Line 20: exactly two parts.
PartsOk(parts) == Len(parts) = 2

\* Lines 30-36: the checksum field as a u8, or None.
ProvidedChecksum(checksum_str) ==
    IF Len(checksum_str) # 2 THEN None ELSE from_str_radix_u8(checksum_str)

TagBlockParse(str) ==
    LET parts == Split(TrimBackslashes(str), CH.star)
    IN  IF ~PartsOk(parts) THEN ErrMissingChecksum
        ELSE LET key_value_part == parts[1]
                 provided == ProvidedChecksum(parts[2])
                 calculated == calculate_checksum(key_value_part)
             IN  IF ~IsSome(provided) THEN ErrChecksumFormat
                 ELSE IF calculated # provided[1]
                     THEN ErrMismatch(calculated, provided[1])
                 ELSE LET after == ApplyPairs(EmptyTagBlock(provided[1]),
                                              Split(key_value_part, CH.comma), 1)
                      IN  IF after.panicked THEN Panic ELSE OkOf(Some(after.tb))

(***************************************************************************)
(* AisParser (crate::sentence) and the message decoders (crate::messages). *)
(* Their source is not among the files modelled here; they are modelled    *)
(* from the specification's sections 4.2 to 4.5 and 6, and from what the   *)
(* callers and tests in utils.rs and lib.rs rely on.                       *)
(***************************************************************************)

\* The outcomes of AisParser::parse: Ok(Complete(sentence)) with the sentence's
\* message, Ok(Incomplete(sentence)), or Err.
Complete(message) == [tag |-> "Complete", message |-> message, err |-> ""]
Incomplete == [tag |-> "Incomplete", message |-> None, err |-> ""]
ParseErr(kind) == [tag |-> "Err", message |-> None, err |-> kind]

\* A small decimal field (fragment count, index, fill bits): its value, or -1.
SmallDecimal(str) ==
    IF Len(str) = 1 /\ str[1] \in 48..57 THEN str[1] - 48
    ELSE IF Len(str) = 2 /\ str[1] \in 48..57 /\ str[2] \in 48..57
        THEN 10 * (str[1] - 48) + (str[2] - 48)
    ELSE -1

AIVDM == <<65, 73, 86, 68, 77>>
AIVDO == <<65, 73, 86, 68, 79>>

\* Section 4.2, the sentence framer: the sentence of a line, or the error.
\* Bytes after the two checksum digits (a line end) are not looked at: the
\* tests hand the parser a line that ends in "\n" and expect Complete.
FrameSentence(line, strict) ==
    IF line = <<>> \/ line[1] \notin {CH.bang, CH.dollar} THEN ParseErr("Format")
    ELSE IF \A i \in 1..Len(line) : line[i] # CH.star THEN ParseErr("Format")
    ELSE
      LET star   == CHOOSE i \in 1..Len(line) :
                        line[i] = CH.star /\ \A j \in 1..(i - 1) : line[j] # CH.star
          body   == SubSeq(line, 2, star - 1)
          fields == Split(body, CH.comma)
          hh     == SubSeq(line, star + 1, star + 2)
      IN  IF Len(line) < star + 2 \/ ToDigit(hh[1], 16) < 0 \/ ToDigit(hh[2], 16) < 0
              THEN ParseErr("Format")
          ELSE IF strict /\ 16 * ToDigit(hh[1], 16) + ToDigit(hh[2], 16) # FoldXor(body, 1, Len(body))
              THEN ParseErr("ChecksumMismatch")
          ELSE IF Len(fields) # 7 THEN ParseErr("Format")
          ELSE IF fields[1] \notin {AIVDM, AIVDO} THEN ParseErr("Framing")
          ELSE IF SmallDecimal(fields[2]) < 1 \/ SmallDecimal(fields[3]) < 1
                  \/ SmallDecimal(fields[7]) \notin 0..5
                  \/ (fields[4] # <<>> /\ SmallDecimal(fields[4]) < 0)
              THEN ParseErr("Format")
          ELSE IF SmallDecimal(fields[3]) > SmallDecimal(fields[2])
              THEN ParseErr("Framing")
          ELSE [ tag |-> "Sentence",
                 num_fragments   |-> SmallDecimal(fields[2]),
                 fragment_number |-> SmallDecimal(fields[3]),
                 message_id      |-> IF fields[4] = <<>> THEN None
                                     ELSE Some(SmallDecimal(fields[4])),
                 channel         |-> fields[5],
                 data            |-> fields[6],
                 fill_bit_count  |-> SmallDecimal(fields[7]) ]

\* Section 4.4, the armoring alphabet: the 6-bit value of a payload character,
\* or -1 outside the two valid ranges.
SixBit(b) ==
    IF b \in 48..87 THEN b - 48
    ELSE IF b \in 96..119 THEN b - 56
    ELSE -1

\* Sections 4.5 and 6: the message of a reassembled payload.  Some(message)
\* for a type with a decoder (the position reports, types 1 to 3), None for a
\* recognized type without one (4 to 27), an error for any other code, for an
\* empty payload and for a character outside the alphabet.  A message is kept
\* as its type and the 6-bit groups and fill bits it was decoded from.
DecodePayload(data, fill) ==
    IF \E i \in 1..Len(data) : SixBit(data[i]) < 0 THEN ParseErr("Alphabet")
    ELSE IF data = <<>> THEN ParseErr("UnsupportedMessageType")
    ELSE LET type == SixBit(data[1])
         IN  IF type \in 1..3
                 THEN Complete(Some([ message_type |-> type,
                                      bits |-> [i \in 1..Len(data) |-> SixBit(data[i])],
                                      fill |-> fill ]))
             ELSE IF type \in 4..27 THEN Complete(None)
             ELSE ParseErr("UnsupportedMessageType")

\* AisParser::new(): no sequence is being reassembled.
NewParser == {}

\* Section 4.3: the buffer entry of a key, as a set of at most one element.
EntryOf(p, key) == {e \in p : e.key = key}
Received(entry) == {f[1] : f \in entry.frags}
PayloadAt(entry, i) == (CHOOSE f \in entry.frags : f[1] = i)[2]

\* Every fragment before the final one has been received.
AllEarlierReceived(entry, total) == \A i \in 1..(total - 1) : i \in Received(entry)

\* Section 4.3, the reassembler: the parser p after the sentence s and the
\* outcome.  A single-fragment sentence bypasses the buffer.  A fragment of a
\* sequence is slotted by its index under (sequential id, channel); a changed
\* total, a repeated index, or the final index while an earlier one is missing
\* discards the sequence with a reassembly error; the final index after all the
\* earlier ones concatenates the payloads in index order, takes the final
\* fragment's fill bits and removes the entry.
Reassemble(p, s) ==
    IF s.num_fragments = 1
        THEN [parser |-> p, outcome |-> DecodePayload(s.data, s.fill_bit_count)]
    ELSE
      LET key    == <<s.message_id, s.channel>>
          others == p \ EntryOf(p, key)
          entry  == IF EntryOf(p, key) = {}
                    THEN [key |-> key, total |-> s.num_fragments, frags |-> {}]
                    ELSE CHOOSE e \in EntryOf(p, key) : TRUE
      IN  IF entry.total # s.num_fragments \/ s.fragment_number \in Received(entry)
              THEN [parser |-> others, outcome |-> ParseErr("Reassembly")]
          ELSE IF s.fragment_number < entry.total
              THEN [ parser |-> others \cup
                        {[entry EXCEPT !.frags = @ \cup {<<s.fragment_number, s.data>>}]},
                     outcome |-> Incomplete ]
          ELSE IF ~AllEarlierReceived(entry, entry.total)
              THEN [parser |-> others, outcome |-> ParseErr("Reassembly")]
          ELSE [ parser |-> others,
                 outcome |-> DecodePayload(
                     Concat([i \in 1..(entry.total - 1) |-> PayloadAt(entry, i)]) \o s.data,
                     s.fill_bit_count) ]

\* AisParser::parse(line, strict): frame the line, then reassemble.
ParserParse(p, line, strict) ==
    LET s == FrameSentence(line, strict)
    IN  IF s.tag = "Err" THEN [parser |-> p, outcome |-> s]
        ELSE Reassemble(p, s)

(***************************************************************************)
(* decoders/utils.rs                                                       *)
(***************************************************************************)

\* The continuation bytes a UTF-8 lead byte asks for (0 for ASCII), -1 for a
\* byte that starts no character, and the range of the first of them (which
\* rules out overlong forms, surrogates and anything above U+10FFFF).
Utf8Need(x) ==
    IF x < 128 THEN 0
    ELSE IF x \in 194..223 THEN 1
    ELSE IF x \in 224..239 THEN 2
    ELSE IF x \in 240..244 THEN 3
    ELSE -1

Utf8Second(x) ==
    IF x = 224 THEN 160..191
    ELSE IF x = 237 THEN 128..159
    ELSE IF x = 240 THEN 144..191
    ELSE IF x = 244 THEN 128..143
    ELSE 128..191

\* std::str::from_utf8(bytes).is_ok(): every lead byte is followed by its
\* continuation bytes, every continuation byte follows a lead byte that asks
\* for it.
IsUtf8(b) ==
    \A i \in 1..Len(b) :
        IF b[i] < 128 THEN TRUE
        ELSE IF b[i] \in 128..191
            THEN \E k \in 1..3 :
                    /\ i - k >= 1
                    /\ Utf8Need(b[i - k]) >= k
                    /\ \A m \in 1..(k - 1) : b[i - m] \in 128..191
        ELSE /\ Utf8Need(b[i]) > 0
             /\ i + Utf8Need(b[i]) <= Len(b)
             /\ \A m \in 1..Utf8Need(b[i]) : b[i + m] \in 128..191
             /\ b[i + 1] \in Utf8Second(b[i])

\* A faulty variant of decode's second arm: an Incomplete fragment is answered Ok with
\* no message to give, here the Ok of an absent one.
DecodeIncompleteAsOk == [tag |-> "Ok", message |-> None, err |-> ""]

\* Lines 79-81: the arm for anything but Complete.
DecodeIncomplete == [tag |-> "Err", message |-> None, err |-> "Incomplete message"]

\* A faulty variant of decode's first arm: the message is taken from the sentence
\* without its fill bits.
DecodeCompleteDroppingFill(message) ==
    IF IsSome(message)
    THEN [tag |-> "Ok", message |-> Some([message[1] EXCEPT !.fill = 0]), err |-> ""]
    ELSE [tag |-> "Err", message |-> None, err |-> "Incomplete message"]

\* Lines 76-78: sentence.message.ok_or(Error::Nmea { msg: "Incomplete message" }).
DecodeComplete(message) ==
    IF IsSome(message)
    THEN [tag |-> "Ok", message |-> message, err |-> ""]
    ELSE [tag |-> "Err", message |-> None, err |-> "Incomplete message"]

\* decode(message): a new parser, one strict parse, the parser's error passed
\* on by `?`.
decode(message) ==
    LET o == ParserParse(NewParser, message, TRUE).outcome
    IN  IF o.tag = "Err" THEN [tag |-> "Err", message |-> None, err |-> o.err]
        ELSE IF o.tag = "Complete" THEN DecodeComplete(o.message)
        ELSE DecodeIncomplete

\* A faulty variant of the readers' use of the parser: every line is parsed by a new
\* AisParser, the one the loop owns (lines 35, 46, 63) is not the one that is fed.
parse_nmea_line_new_parser(p, line) ==
    LET r == ParserParse(NewParser, line, TRUE)
    IN  [ parser   |-> p,
          outcome  |-> r.outcome,
          printed  |-> IF r.outcome.tag = "Incomplete" \/ ~IsUtf8(line) THEN "none"
                       ELSE IF r.outcome.tag = "Complete" THEN "stdout" ELSE "stderr",
          panicked |-> r.outcome.tag # "Incomplete" /\ ~IsUtf8(line) ]

\* parse_nmea_line(p, line): the parser p after the line, what the call
\* printed (to stdout for Complete, to stderr for Err, nothing for Incomplete)
\* and whether it panicked, which it does when from_utf8(line).unwrap() is
\* reached with a line that is not UTF-8.
parse_nmea_line(p, line) ==
    LET r == ParserParse(p, line, TRUE)
    IN  [ parser   |-> r.parser,
          outcome  |-> r.outcome,
          printed  |-> IF r.outcome.tag = "Incomplete" \/ ~IsUtf8(line) THEN "none"
                       ELSE IF r.outcome.tag = "Complete" THEN "stdout" ELSE "stderr",
          panicked |-> r.outcome.tag # "Incomplete" /\ ~IsUtf8(line) ]

(***************************************************************************)
(* The inputs TagBlock::parse is run on                                    *)
(***************************************************************************)

\* The most comma-separated pairs in a generated key-value section.
MaxPairs == 2

\* The pairs the generated key-value sections are made of: the six known keys,
\* values that do and do not parse, an unknown key, short tokens, tokens with
\* a two-byte character, and a value that holds a '*'.
TagTokens ==
    {
      <<99,58,49>>,   \* c:1
      <<99,58,120>>,   \* c:x
      <<115,58,65>>,   \* s:A
      <<100,58,66>>,   \* d:B
      <<110,58,50>>,   \* n:2
      <<114,58,51>>,   \* r:3
      <<116,58,84>>,   \* t:T
      <<120,58,57>>,   \* x:9
      <<115,58>>,   \* s:
      <<97,195,169>>,   \* aé
      <<195,169,49>>,   \* é1
      <<110,58,52,50,57,52,57,54,55,50,57,54>>,   \* n:4294967296
      <<99,58,43,55>>,   \* c:+7
      <<116,58,97,42,98>>   \* t:a*b
    }

\* The key-value sections of the crate's own tests.
TestKvSections ==
    {
      <<115,58,49,50,51,52,53,54,55,44,99,58,49,54,50,53,49,52,48,56,48,48>>,   \* s:1234567,c:1625140800
      <<115,58,50,53,55,51,49,51,53,44,99,58,49,54,55,49,54,50,48,49,52,51,44,100,58,70,111,111,66,97,114,44,110,58,49,50,51,44,114,58,52,53,54,44,116,58,72,101,108,108,111,87,111,114,108,100,33>>,   \* s:2573135,c:1671620143,d:FooBar,n:123,r:456,t:HelloWorld!
      <<115,58,50,53,55,51,49,51,53,44,99,58,49,54,55,49,54,50,48,49,52,51>>,   \* s:2573135,c:1671620143
      <<120,58,117,110,107,110,111,119,110,95,107,101,121,44,115,58,50,53,55,51,49,51,53,44,99,58,49,54,55,49,54,50,48,49,52,51>>   \* x:unknown_key,s:2573135,c:1671620143
    }

\* The inputs of the crate's own tests (tag_block.rs 109-170, utils.rs 203), as written.
TestInputs ==
    {
      <<92,115,58,49,50,51,52,53,54,55,44,99,58,49,54,50,53,49,52,48,56,48,48,42,51,52,92>>,   \* \s:1234567,c:1625140800*34\
      <<92,115,58,50,53,55,51,49,51,53,44,99,58,49,54,55,49,54,50,48,49,52,51,44,100,58,70,111,111,66,97,114,44,110,58,49,50,51,44,114,58,52,53,54,44,116,58,72,101,108,108,111,87,111,114,108,100,33,42,48,51,92>>,   \* \s:2573135,c:1671620143,d:FooBar,n:123,r:456,t:HelloWorld!*03\
      <<105,110,118,97,108,105,100,95,116,97,103,95,98,108,111,99,107,95,102,111,114,109,97,116>>,   \* invalid_tag_block_format
      <<92,115,58,50,53,55,51,49,51,53,44,99,58,49,54,55,49,54,50,48,49,52,51,42,71,71,92>>,   \* \s:2573135,c:1671620143*GG\
      <<92,115,58,50,53,55,51,49,51,53,44,99,58,49,54,55,49,54,50,48,49,52,51,42,70,70,92>>,   \* \s:2573135,c:1671620143*FF\
      <<92,120,58,117,110,107,110,111,119,110,95,107,101,121,44,115,58,50,53,55,51,49,51,53,44,99,58,49,54,55,49,54,50,48,49,52,51,42,48,49,92>>,   \* \x:unknown_key,s:2573135,c:1671620143*01\
      <<33,65,73,86,68,77,44,49,44,49,44,44,66,44,49,53,78,71,54,86,48,80,48,49,71,63,99,70,104,69,96,82,50,73,85,63,119,110,50,56,82,62,44,48,42,48,53>>   \* !AIVDM,1,1,,B,15NG6V0P01G?cFhE`R2IU?wn28R>,0*05
    }

KvSections ==
    TestKvSections \cup
    { Join(ts, CH.comma) : ts \in UNION { [1..k -> TagTokens] : k \in 1..MaxPairs } }

\* The XOR of a byte string, each bit as the parity of the bytes that have it
\* set.  This is the checksum as the format defines it; the inputs and the
\* properties use it, the parser has calculate_checksum.
XorBit(str, w) == Cardinality({i \in 1..Len(str) : (str[i] \div w) % 2 = 1}) % 2

XorFold(str) ==
    XorBit(str, 1) + 2 * XorBit(str, 2) + 4 * XorBit(str, 4) + 8 * XorBit(str, 8)
    + 16 * XorBit(str, 16) + 32 * XorBit(str, 32) + 64 * XorBit(str, 64)
    + 128 * XorBit(str, 128)

HexChar(v, upper) ==
    IF v < 10 THEN 48 + v ELSE (IF upper THEN 65 ELSE 97) + (v - 10)

Hex2(v, upper) == <<HexChar(v \div 16, upper), HexChar(v % 16, upper)>>

\* What may follow a key-value section kv: nothing, or a '*' and a checksum
\* field that matches, differs, or is not two hexadecimal digits.
TrailerKinds ==
    { "none", "match", "match_lower", "differ", "plus", "minus", "GG",
      "one_digit", "three_digits", "empty" }

Trailer(kv, kind) ==
    IF kind = "none" THEN <<>>
    ELSE <<CH.star>> \o
         ( IF kind = "match" THEN Hex2(XorFold(kv), TRUE)
           ELSE IF kind = "match_lower" THEN Hex2(XorFold(kv), FALSE)
           ELSE IF kind = "differ" THEN Hex2((XorFold(kv) + 1) % 256, TRUE)
           ELSE IF kind = "plus" THEN <<CH.plus, HexChar(XorFold(kv) % 16, TRUE)>>
           ELSE IF kind = "minus" THEN <<CH.minus, HexChar(XorFold(kv) % 16, TRUE)>>
           ELSE IF kind = "GG" THEN <<71, 71>>
           ELSE IF kind = "one_digit" THEN <<HexChar(XorFold(kv) % 16, TRUE)>>
           ELSE IF kind = "three_digits" THEN <<48>> \o Hex2(XorFold(kv), TRUE)
           ELSE <<>> )

\* The backslashes around it: none, both, the leading one only.
WrapKinds == {"bare", "both", "leading"}

Wrap(body, kind) ==
    IF kind = "bare" THEN body
    ELSE IF kind = "both" THEN <<CH.backslash>> \o body \o <<CH.backslash>>
    ELSE <<CH.backslash>> \o body

TagInputs ==
    TestInputs \cup
    { Wrap(kv \o Trailer(kv, tr), w) : kv \in KvSections, tr \in TrailerKinds, w \in WrapKinds }

(***************************************************************************)
(* The specification of TagBlock::parse: an input is chosen, the call is   *)
(* made.                                                                   *)
(***************************************************************************)

\* The parts of the state a specification does not use stay as they are here.
Idle == [tag |-> "Idle", msg |-> "", val |-> None, calculated |-> 0, expected |-> 0]
TagIdle == input = <<>> /\ result = Idle
LoopIdle ==
    /\ transport = "none" /\ status = "idle" /\ failure = "" /\ parser = NewParser
    /\ delivered = <<>> /\ fed = <<>> /\ outcomes = <<>> /\ printed = <<>> /\ framed = <<>>
DecodeIdle == dline = <<>> /\ dresult = [tag |-> "Idle", message |-> None, err |-> ""]

InitTag ==
    /\ input \in TagInputs
    /\ result = Pending
    /\ LoopIdle
    /\ DecodeIdle

TagParse ==
    /\ result = Pending
    /\ result' = TagBlockParse(input)
    /\ UNCHANGED <<input, loopVars, decodeVars>>

NextTag == TagParse

SpecTag == InitTag /\ [][NextTag]_vars

(***************************************************************************)
(* The lines the readers and decode are run on                             *)
(***************************************************************************)

\* The most lines a reader is given (the replay of lib.rs's TEST_MESSAGES apart).
MaxLines == 3

\* A well-formed sentence with the right checksum.
MkSentence(count, index, seq, chan, payload, fill) ==
    LET body == Join(<< AIVDM, <<48 + count>>, <<48 + index>>,
                        IF IsSome(seq) THEN <<48 + seq[1]>> ELSE <<>>,
                        <<chan>>, payload, <<48 + fill>> >>, CH.comma)
    IN  <<CH.bang>> \o body \o <<CH.star>> \o Hex2(XorFold(body), TRUE)

\* lib.rs 85-94, TEST_MESSAGES: six single-fragment sentences, then the two
\* fragments of one message.
TEST_MESSAGES ==
    <<
    <<33,65,73,86,68,77,44,49,44,49,44,44,66,44,69,62,107,98,57,79,57,97,83,64,55,80,85,104,49,48,100,104,49,57,64,59,48,84,97,104,50,99,87,114,102,80,58,108,63,77,96,48,48,48,48,51,118,80,49,48,48,44,48,42,48,49>>,
    <<33,65,73,86,68,77,44,49,44,49,44,44,65,44,52,48,51,79,116,86,65,118,54,115,53,108,49,111,63,73,96,96,69,96,52,73,63,48,50,60,51,52,44,48,42,50,49>>,
    <<33,65,73,86,68,77,44,49,44,49,44,44,66,44,69,78,107,98,57,85,55,57,80,87,64,56,48,81,54,55,104,49,48,100,104,49,84,54,64,72,113,59,96,48,87,56,58,112,101,79,72,48,48,48,48,51,118,80,48,48,48,44,48,42,49,67>>,
    <<33,65,73,86,68,77,44,49,44,49,44,44,65,44,69,78,107,98,57,72,50,96,58,64,49,55,87,52,98,48,104,64,64,64,64,64,64,64,64,64,64,59,87,83,69,105,58,108,75,57,56,48,48,48,48,51,118,80,48,48,48,44,48,42,48,56>>,
    <<33,65,73,86,68,77,44,49,44,49,44,44,65,44,69,62,107,98,57,73,57,57,83,64,48,96,56,64,58,57,97,104,59,48,84,97,104,73,55,64,64,59,86,52,61,118,58,110,118,59,104,48,48,48,48,51,118,80,49,48,48,44,48,42,55,65>>,
    <<33,65,73,86,68,77,44,49,44,49,44,44,66,44,52,48,51,79,116,86,65,118,54,115,53,108,79,111,63,73,96,112,69,96,52,75,79,48,50,60,51,52,44,48,42,51,69>>,
    <<33,65,73,86,68,77,44,50,44,49,44,49,44,66,44,53,51,96,115,111,66,56,48,48,48,48,49,48,75,83,79,87,60,48,80,52,101,68,112,52,108,54,48,48,48,48,48,48,48,48,48,48,48,48,85,48,112,60,50,52,116,64,80,48,53,72,51,83,56,51,51,67,68,80,48,48,48,48,48,44,48,42,55,56>>,
    <<33,65,73,86,68,77,44,50,44,50,44,49,44,66,44,48,48,48,48,48,48,48,44,50,42,50,54>>
    >>

\* utils.rs 111, 129, 161, 182, 203: the position report of the tests.
TestPositionReport ==
    <<33,65,73,86,68,77,44,49,44,49,44,44,66,44,49,53,78,71,54,86,48,80,48,49,71,63,99,70,104,69,96,82,50,73,85,63,119,110,50,56,82,62,44,48,42,48,53>>

\* The lines a reader may be given: two single-fragment sentences (a position
\* report; a type without a decoder), the fragments of a two-part and of a
\* three-part message, a first fragment that declares another total for the
\* three-part message's key, a sentence with a wrong checksum, and a line that
\* is no sentence and no UTF-8.
LoopLines ==
    { MkSentence(1, 1, None, 65, <<49>>, 0),
      MkSentence(1, 1, None, 66, <<53>>, 0),
      MkSentence(2, 1, Some(1), 66, <<49>>, 0),
      MkSentence(2, 2, Some(1), 66, <<48>>, 2),
      MkSentence(3, 1, Some(2), 65, <<49>>, 0),
      MkSentence(3, 2, Some(2), 65, <<48>>, 0),
      MkSentence(3, 3, Some(2), 65, <<48>>, 4),
      MkSentence(2, 1, Some(2), 65, <<49>>, 0),
      <<33,65,73,86,68,77,44,49,44,49,44,44,65,44,49,44,48,42,48,48>>,
      <<255, 254>> }

IsPrefix(a, b) == Len(a) <= Len(b) /\ SubSeq(b, 1, Len(a)) = a

\* The lines that may come next after those delivered.
NextLines(done) ==
    (IF Len(done) < MaxLines THEN LoopLines ELSE {}) \cup
    (IF Len(done) < Len(TEST_MESSAGES) /\ IsPrefix(done, TEST_MESSAGES)
     THEN {TEST_MESSAGES[Len(done) + 1]} ELSE {})

\* The messages decode is called with: sentences of every shape, with a right
\* and a wrong checksum, the lines of the tests, and the reader's lines.
DecodeLines ==
    LoopLines \cup {TestPositionReport} \cup {TEST_MESSAGES[i] : i \in 1..Len(TEST_MESSAGES)}
    \cup { MkSentence(n, i, seq, 65, payload, fill) :
             n \in 1..2, i \in 1..2, seq \in {None, Some(1)},
             payload \in {<<>>, <<49>>, <<50, 119>>, <<53>>, <<48>>, <<49, 122>>},
             fill \in {0, 2} }
    \cup { SubSeq(MkSentence(1, 1, None, 65, payload, 0), 1, 18) \o <<48, 48>> :
             payload \in {<<49>>, <<53>>} }

(***************************************************************************)
(* The readers: decode_from_udp, decode_from_tcp, decode_from_file         *)
(***************************************************************************)

\* utils.rs 34: the datagram buffer.
UdpBufferSize == 1024

InitLoop ==
    /\ transport \in {"udp", "tcp", "file"}
    /\ status = "start"
    /\ failure = ""
    /\ parser = NewParser
    /\ delivered = <<>> /\ fed = <<>> /\ outcomes = <<>> /\ printed = <<>> /\ framed = <<>>
    /\ TagIdle
    /\ DecodeIdle

\* One call of parse_nmea_line on `line` by a running reader.
Feed(line) ==
    LET r == parse_nmea_line(parser, line)
    IN  /\ parser' = r.parser
        /\ fed' = Append(fed, line)
        /\ outcomes' = Append(outcomes, r.outcome)
        /\ printed' = Append(printed, r.printed)
        /\ framed' = Append(framed, FrameSentence(line, TRUE))
        /\ status' = IF r.panicked THEN "panicked" ELSE "running"
        /\ failure' = failure

\* Lines 33, 45, 60: bind, connect or open; an error is returned by `?`.
Open ==
    /\ status = "start"
    /\ \E ok \in BOOLEAN :
          /\ status' = IF ok THEN "running" ELSE "failed"
          /\ failure' = IF ok THEN "" ELSE "io"
    /\ UNCHANGED <<transport, parser, delivered, fed, outcomes, printed, framed, tagVars, decodeVars>>

\* Lines 37-40: one turn of the UDP loop, the datagram cut to the buffer.
UdpRecv ==
    /\ transport = "udp" /\ status = "running"
    /\ \E d \in NextLines(delivered) :
          /\ delivered' = Append(delivered, d)
          /\ Feed(SubSeq(d, 1, IF Len(d) < UdpBufferSize THEN Len(d) ELSE UdpBufferSize))
    /\ UNCHANGED <<transport, tagVars, decodeVars>>

\* Line 38: recv_from fails.
UdpRecvError ==
    /\ transport = "udp" /\ status = "running"
    /\ status' = "failed" /\ failure' = "io"
    /\ UNCHANGED <<transport, parser, delivered, fed, outcomes, printed, framed, tagVars, decodeVars>>

\* Lines 50-53: one turn of the TCP loop; read_until keeps the "\n".
TcpReadLine ==
    /\ transport = "tcp" /\ status = "running"
    /\ \E l \in NextLines(delivered) :
          /\ delivered' = Append(delivered, l)
          /\ Feed(Append(l, CH.lf))
    /\ UNCHANGED <<transport, tagVars, decodeVars>>

\* Lines 50, 55: read_until returns 0 at the end of the stream.
TcpEof ==
    /\ transport = "tcp" /\ status = "running"
    /\ status' = "ended"
    /\ UNCHANGED <<transport, failure, parser, delivered, fed, outcomes, printed, framed,
                   tagVars, decodeVars>>

\* Line 50: read_until fails.
TcpReadError ==
    /\ transport = "tcp" /\ status = "running"
    /\ status' = "failed" /\ failure' = "io"
    /\ UNCHANGED <<transport, parser, delivered, fed, outcomes, printed, framed, tagVars, decodeVars>>

\* Lines 65-67: one turn of the file loop.  next_line gives a String, so a line
\* that is not UTF-8 ends the loop with an InvalidData error before the parser
\* sees it.
FileNextLine ==
    /\ transport = "file" /\ status = "running"
    /\ \E l \in NextLines(delivered) :
          /\ delivered' = Append(delivered, l)
          /\ IF IsUtf8(l) THEN Feed(l)
             ELSE /\ status' = "failed" /\ failure' = "invalid_data"
                  /\ UNCHANGED <<parser, fed, outcomes, printed, framed>>
    /\ UNCHANGED <<transport, tagVars, decodeVars>>

\* Lines 65, 69: next_line returns None at the end of the file.
FileEof ==
    /\ transport = "file" /\ status = "running"
    /\ status' = "ended"
    /\ UNCHANGED <<transport, failure, parser, delivered, fed, outcomes, printed, framed,
                   tagVars, decodeVars>>

\* Line 65: next_line fails.
FileReadError ==
    /\ transport = "file" /\ status = "running"
    /\ status' = "failed" /\ failure' = "io"
    /\ UNCHANGED <<transport, parser, delivered, fed, outcomes, printed, framed, tagVars, decodeVars>>

NextLoop ==
    \/ Open
    \/ UdpRecv \/ UdpRecvError
    \/ TcpReadLine \/ TcpEof \/ TcpReadError
    \/ FileNextLine \/ FileEof \/ FileReadError

SpecLoop == InitLoop /\ [][NextLoop]_vars

(***************************************************************************)
(* decode                                                                  *)
(***************************************************************************)

DecodePending == [tag |-> "Pending", message |-> None, err |-> ""]

InitDecode ==
    /\ dline \in DecodeLines
    /\ dresult = DecodePending
    /\ TagIdle
    /\ LoopIdle

Decode ==
    /\ dresult = DecodePending
    /\ dresult' = decode(dline)
    /\ UNCHANGED <<dline, tagVars, loopVars>>

NextDecode == Decode

SpecDecode == InitDecode /\ [][NextDecode]_vars

(***************************************************************************)
(* The crate as a whole: one of the three is run.                          *)
(***************************************************************************)

Init == InitTag \/ InitLoop \/ InitDecode

Next == NextTag \/ NextLoop \/ NextDecode

Spec == Init /\ [][Next]_vars

(***************************************************************************)
(* The tag-block format, as the properties below read an input.  These     *)
(* definitions describe the input; none of them is used by the parser.     *)
(***************************************************************************)

StarCount(str) == Cardinality({i \in 1..Len(str) : str[i] = CH.star})

RECURSIVE DropLeading(_, _)
DropLeading(str, b) ==
    IF str # <<>> /\ Head(str) = b THEN DropLeading(Tail(str), b) ELSE str

RECURSIVE DropTrailing(_, _)
DropTrailing(str, b) ==
    IF str # <<>> /\ str[Len(str)] = b
    THEN DropTrailing(SubSeq(str, 1, Len(str) - 1), b) ELSE str

\* The input without the backslashes that delimit it.
Unwrapped(str) == DropTrailing(DropLeading(str, CH.backslash), CH.backslash)

\* For an input with exactly one '*': the section before it, the field after it.
StarAt(str) == CHOOSE i \in 1..Len(str) : str[i] = CH.star
KvSectionOf(str) == SubSeq(Unwrapped(str), 1, StarAt(Unwrapped(str)) - 1)
ChecksumFieldOf(str) ==
    SubSeq(Unwrapped(str), StarAt(Unwrapped(str)) + 1, Len(Unwrapped(str)))

HexDigits == (48..57) \cup (65..70) \cup (97..102)
IsTwoHex(f) == Len(f) = 2 /\ f[1] \in HexDigits /\ f[2] \in HexDigits
HexDigitValue(b) == CHOOSE v \in 0..15 : b \in {HexChar(v, TRUE), HexChar(v, FALSE)}
TwoHexValue(f) == 16 * HexDigitValue(f[1]) + HexDigitValue(f[2])

\* The input declares a two-digit checksum, and it is (is not) the XOR-fold of
\* the key-value section.
DeclaresChecksum(str) == StarCount(str) = 1 /\ IsTwoHex(ChecksumFieldOf(str))
ChecksumMatches(str) ==
    DeclaresChecksum(str) /\ TwoHexValue(ChecksumFieldOf(str)) = XorFold(KvSectionOf(str))
ChecksumDiffers(str) ==
    DeclaresChecksum(str) /\ TwoHexValue(ChecksumFieldOf(str)) # XorFold(KvSectionOf(str))

\* The number of characters of a UTF-8 string: the bytes that start one.
CharLen(str) == Cardinality({i \in 1..Len(str) : str[i] \notin 128..191})

\* The pairs of a key-value section, and those of the form <key>:<value> with a
\* value of at least one character.
PairsOf(kv) == Split(kv, CH.comma)
IsPairOf(tok, key) == CharLen(tok) >= 3 /\ tok[1] = key /\ tok[2] = CH.colon
PairValue(tok) == SubSeq(tok, 3, Len(tok))

\* The value of the last pair with the given key, None when there is none.
LastValue(kv, key) ==
    LET at == {i \in 1..Len(PairsOf(kv)) : IsPairOf(PairsOf(kv)[i], key)}
    IN  IF at = {} THEN None
        ELSE Some(PairValue(PairsOf(kv)[CHOOSE i \in at : \A j \in at : i >= j]))

IsDecimal(v) == v # <<>> /\ \A i \in 1..Len(v) : v[i] \in 48..57
DecimalValue(v) == StripZeros([i \in 1..Len(v) |-> v[i] - 48])

\* A bare NMEA sentence: it starts with '!' or '$', no tag block before it.
IsBareSentence(str) == str # <<>> /\ str[1] \in {CH.bang, CH.dollar}

Parsed == result.tag # "Pending"
IsErr(m) == result.tag = "Err" /\ result.msg = m

(***************************************************************************)
(* Properties of TagBlock::parse, under SpecTag                            *)
(***************************************************************************)

C8_ExactlyOneStar ==
    Parsed => (StarCount(input) # 1 <=> result = ErrMissingChecksum)

\* C8's case: an input with two '*' (a t: value holding one) was rejected so.
C8_Witness ==
    /\ StarCount(input) = 2
    /\ \E i \in 1..Len(PairsOf(Unwrapped(input))) :
          /\ Len(PairsOf(Unwrapped(input))[i]) >= 2
          /\ SubSeq(PairsOf(Unwrapped(input))[i], 1, 2) = <<CH.t, CH.colon>>
    /\ result = ErrMissingChecksum

\* C9: a checksum field is accepted only if it is two hexadecimal characters;
\* any other field is answered 'Invalid checksum format' and never compared.
C9_TwoHexOnly ==
    (Parsed /\ StarCount(input) = 1 /\ ~IsTwoHex(ChecksumFieldOf(input)))
        => result = ErrChecksumFormat

\* C3: the call returns Ok or Err, it never panics.
C3_NeverPanics == Parsed => result.tag \in {"Ok", "Err"}

\* C7: Ok(None) for a line without a tag block (a bare sentence), Ok(Some(block))
\* for a tag block that is present and valid, an error for one that is present
\* and malformed (no single '*', or a declared checksum that differs).
C7_ThreeOutcomes ==
    Parsed =>
        /\ IsBareSentence(input) => result = OkOf(None)
        /\ (~IsBareSentence(input) /\ ChecksumMatches(input)
              /\ \A i \in 1..Len(input) : input[i] < 128)
              => (result.tag = "Ok" /\ IsSome(result.val))
        /\ (~IsBareSentence(input) /\ (StarCount(input) # 1 \/ ChecksumDiffers(input)))
              => result.tag = "Err"

\* What C10 says of one field: absent when its key does not occur, otherwise
\* set from the last pair with the key (text as it stands, an integer by its
\* decimal value when the value is a decimal number of the field's width).
TextFieldSet(field, kv, key) ==
    field = LastValue(kv, key)

IntFieldSet(field, kv, key, max) ==
    LET v == LastValue(kv, key)
    IN  /\ ~IsSome(v) => field = None
        /\ (IsSome(v) /\ IsDecimal(v[1]) /\ NatLeq(DecimalValue(v[1]), max))
              => field = Some(DecimalValue(v[1]))

FieldsSet(tb, str) ==
    LET kv == KvSectionOf(str)
    IN  /\ IntFieldSet(tb.receiver_timestamp, kv, CH.c, U64Max)
        /\ TextFieldSet(tb.destination_station, kv, CH.d)
        /\ IntFieldSet(tb.line_count, kv, CH.n, U32Max)
        /\ IntFieldSet(tb.relative_time, kv, CH.r, U32Max)
        /\ TextFieldSet(tb.source_station, kv, CH.s)
        /\ TextFieldSet(tb.text, kv, CH.t)
        /\ tb.checksum = TwoHexValue(ChecksumFieldOf(str))

\* C10: every tag block with a matching checksum is parsed without error, each
\* recognized pair sets its own field, unrecognized keys and tokens of fewer
\* than three characters change nothing, and the checksum is the declared one.
C10_FieldsParsed ==
    (Parsed /\ ChecksumMatches(input)) =>
        /\ result.tag = "Ok"
        /\ IsSome(result.val)
        /\ FieldsSet(result.val[1], input)

\* C10 where the call returns: the fields are as C10 says whenever the call
\* does not panic.
C10_FieldsParsedUnlessPanic ==
    (Parsed /\ ChecksumMatches(input) /\ result.tag # "Panic") =>
        /\ result.tag = "Ok"
        /\ IsSome(result.val)
        /\ FieldsSet(result.val[1], input)

(***************************************************************************)
(* Properties of the readers, under SpecLoop                               *)
(***************************************************************************)

\* The sentence framed from the k-th line fed, and its reassembly key.
SentenceFed(k) == framed[k]
IsFragmentFed(k) == SentenceFed(k).tag = "Sentence" /\ SentenceFed(k).num_fragments > 1
KeyFed(k) == <<SentenceFed(k).message_id, SentenceFed(k).channel>>
IsFragmentOf(k, key, total, index) ==
    /\ IsFragmentFed(k)
    /\ KeyFed(k) = key
    /\ SentenceFed(k).num_fragments = total
    /\ SentenceFed(k).fragment_number = index

\* The positions, up to k, of the fragments fed under the key of the k-th line.
SameKeyUpTo(k) == {j \in 1..k : IsFragmentFed(j) /\ KeyFed(j) = KeyFed(k)}

\* C2: a line the parser rejects is reported and skipped: the reader does not
\* abort on it, and every line delivered so far has been passed to the parser
\* unless the transport itself has failed.
C2_LogAndContinue ==
    /\ status # "panicked"
    /\ status \in {"running", "ended"} => Len(fed) = Len(delivered)
    /\ \A k \in 1..Len(fed) : outcomes[k].tag = "Err" => printed[k] = "stderr"

Decoded == dresult.tag # "Pending"

\* What a new parser answers to the message decode was given.
FreshParse == ParserParse(NewParser, dline, TRUE).outcome

IsOneFragment(line) ==
    FrameSentence(line, TRUE).tag = "Sentence" /\ FrameSentence(line, TRUE).num_fragments = 1

\* C5: when the sentence yields an Incomplete fragment, decode returns the
\* 'Incomplete message' error and no message.
C5_IncompleteIsError ==
    (Decoded /\ FreshParse.tag = "Incomplete") =>
        /\ dresult.tag = "Err"
        /\ dresult.err = "Incomplete message"
        /\ dresult.message = None

\* C5's case: decode was given the first fragment of lib.rs's two-part message.
C5_Witness ==
    /\ dline = TEST_MESSAGES[7]
    /\ FreshParse.tag = "Incomplete"
    /\ dresult.tag = "Err" /\ dresult.err = "Incomplete message"

====
